---- MODULE Spec2Model ----
(***************************************************************************)
(* Model of src/src/main.py: a Playwright script that restores a saved     *)
(* browser session, logs in when needed, walks to the product catalog,     *)
(* scrolls until every product card is loaded, parses the cards and writes *)
(* them to product_data.json, then saves the session again.                *)
(*                                                                         *)
(* Texts are sequences of one-character strings, so that str.split,        *)
(* str.strip, int(), json.dump/json.load and the JavaScript string literal *)
(* of the init script are computed the way the code computes them.         *)
(***************************************************************************)
EXTENDS Integers, Sequences, FiniteSets, TLC

\* ------------------------------------------------------------------ bounds
\* Largest number of product cards the page ever shows.
MaxItems == 3
\* Cap on the growth triggers of one run (the code has no cap of its own).
MaxTriggers == 4
\* Longest client-storage value of the session round trip.
MaxValLen == 2

\* ------------------------------------------------------- python str helpers
Digits == <<"0","1","2","3","4","5","6","7","8","9">>

IsDigit(c) == \E i \in 1..Len(Digits) : Digits[i] = c

DigitVal(c) == (CHOOSE i \in 1..Len(Digits) : Digits[i] = c) - 1

IsSpace(c) == c = " "

\* s[a..b] as a sequence, empty when b < a.
Slice(s, a, b) == IF b < a THEN <<>> ELSE SubSeq(s, a, b)

\* Does d occur in s at position i?
OccursAt(s, d, i) == /\ i + Len(d) - 1 <= Len(s)
                     /\ \A j \in 1..Len(d) : s[i + j - 1] = d[j]

\* str.find: first position of d in s, 0 when there is none.
Find(s, d) ==
    IF \E i \in 1..Len(s) : OccursAt(s, d, i)
    THEN CHOOSE i \in 1..Len(s) :
            OccursAt(s, d, i) /\ \A j \in 1..(i - 1) : ~OccursAt(s, d, j)
    ELSE 0

\* str.split(d) for a non-empty separator d: the pieces between the
\* occurrences of d, scanned left to right.
RECURSIVE Split(_, _)
Split(s, d) ==
    LET i == Find(s, d) IN
    IF i = 0 THEN <<s>>
    ELSE <<Slice(s, 1, i - 1)>> \o Split(Slice(s, i + Len(d), Len(s)), d)

RECURSIVE LStrip(_)
LStrip(s) == IF s # <<>> /\ IsSpace(Head(s)) THEN LStrip(Tail(s)) ELSE s

RECURSIVE RStrip(_)
RStrip(s) == IF s # <<>> /\ IsSpace(s[Len(s)])
             THEN RStrip(Slice(s, 1, Len(s) - 1)) ELSE s

\* str.strip()
Strip(s) == RStrip(LStrip(s))

RECURSIVE DigitsValue(_)
DigitsValue(s) == IF s = <<>> THEN 0
                  ELSE 10 * DigitsValue(Slice(s, 1, Len(s) - 1)) + DigitVal(s[Len(s)])

\* int(s): surrounding whitespace is ignored, then an optional sign and a
\* non-empty run of digits; anything else raises ValueError.
PyInt(s) ==
    LET t    == Strip(s)
        neg  == t # <<>> /\ Head(t) = "-"
        sgn  == t # <<>> /\ Head(t) \in {"-", "+"}
        body == IF sgn THEN Tail(t) ELSE t
    IN  IF body # <<>> /\ \A i \in 1..Len(body) : IsDigit(body[i])
        THEN [ok |-> TRUE, val |-> IF neg THEN 0 - DigitsValue(body) ELSE DigitsValue(body),
              err |-> "none"]
        ELSE [ok |-> FALSE, val |-> 0, err |-> "ValueError"]

\* The labels and delimiters the code splits on.
SepOf == <<"o","f">>
SepProducts == <<"p","r","o","d","u","c","t","s">>
SepColon == <<":">>
SepShade == <<"S","h","a","d","e">>
SepDetails == <<"D","e","t","a","i","l","s">>
SepGuarantee == <<"G","u","a","r","a","n","t","e","e">>

\* Mutant of ParseTotal: a summary without a number counts as "very many"
\* instead of raising.
ParseTotal_Fallback(text) ==
    LET parts == Split(text, SepOf)
        many  == [ok |-> TRUE, val |-> 99, err |-> "none"]
    IN  IF Len(parts) < 2 THEN many
        ELSE IF PyInt(Strip(Split(parts[2], SepProducts)[1])).ok
             THEN PyInt(Strip(Split(parts[2], SepProducts)[1]))
        ELSE many

\* int(text.split("of")[1].split("products")[0].strip())
ParseTotal(text) ==
    LET parts == Split(text, SepOf) IN
    IF Len(parts) < 2 THEN [ok |-> FALSE, val |-> 0, err |-> "IndexError"]
    ELSE PyInt(Strip(Split(parts[2], SepProducts)[1]))

\* Mutant of ParseField: a text without the label gives "" instead of an
\* IndexError.
ParseField_Default(text, label) ==
    LET parts == Split(text, label) IN
    IF Len(parts) < 2 THEN [ok |-> TRUE, val |-> <<>>, err |-> "none"]
    ELSE [ok |-> TRUE, val |-> Strip(parts[2]), err |-> "none"]

\* text.split(label)[1].strip()
ParseField(text, label) ==
    LET parts == Split(text, label) IN
    IF Len(parts) < 2 THEN [ok |-> FALSE, val |-> <<>>, err |-> "IndexError"]
    ELSE [ok |-> TRUE, val |-> Strip(parts[2]), err |-> "none"]

\* ------------------------------------------------- JSON and the init script
Quote == "\""
Backslash == "\\"
Apos == "'"

\* JSON string escaping, as JSON.stringify and json.dump apply it.
RECURSIVE JsonEscape(_)
JsonEscape(s) ==
    IF s = <<>> THEN <<>>
    ELSE (IF Head(s) \in {Quote, Backslash} THEN <<Backslash, Head(s)>> ELSE <<Head(s)>>)
         \o JsonEscape(Tail(s))

JsonQuote(s) == <<Quote>> \o JsonEscape(s) \o <<Quote>>

\* A JSON string starting at t[i]: its value and the position after it.
RECURSIVE JsonStringBody(_, _, _)
JsonStringBody(t, i, acc) ==
    IF i > Len(t) THEN [ok |-> FALSE, val |-> <<>>, next |-> i]
    ELSE IF t[i] = Quote THEN [ok |-> TRUE, val |-> acc, next |-> i + 1]
    ELSE IF t[i] = Backslash
         THEN IF i + 1 <= Len(t) /\ t[i + 1] \in {Quote, Backslash, "/"}
              THEN JsonStringBody(t, i + 2, Append(acc, t[i + 1]))
              ELSE [ok |-> FALSE, val |-> <<>>, next |-> i]
    ELSE JsonStringBody(t, i + 1, Append(acc, t[i]))

JsonParseString(t, i) ==
    IF i <= Len(t) /\ t[i] = Quote THEN JsonStringBody(t, i + 1, <<>>)
    ELSE [ok |-> FALSE, val |-> <<>>, next |-> i]

\* The members "key":"value" of an object, from t[i] to the closing brace,
\* which has to be the last character of t.
RECURSIVE JsonMembers(_, _, _)
JsonMembers(t, i, acc) ==
    LET k == JsonParseString(t, i)
        v == JsonParseString(t, k.next + 1)
        bad == [ok |-> FALSE, entries |-> <<>>]
    IN  IF ~k.ok \/ k.next > Len(t) \/ t[k.next] # ":" THEN bad
        ELSE IF ~v.ok \/ v.next > Len(t) THEN bad
        ELSE IF t[v.next] = "," THEN JsonMembers(t, v.next + 1, Append(acc, <<k.val, v.val>>))
        ELSE IF t[v.next] = "}" /\ v.next = Len(t)
             THEN [ok |-> TRUE, entries |-> Append(acc, <<k.val, v.val>>)]
        ELSE bad

\* JSON.parse of an object of string members (no whitespace between tokens:
\* JSON.stringify emits none): the (key, value) pairs in document order.
JsonParseObject(t) ==
    IF Len(t) < 2 \/ t[1] # "{" THEN [ok |-> FALSE, entries |-> <<>>]
    ELSE IF t[2] = "}" THEN [ok |-> Len(t) = 2, entries |-> <<>>]
    ELSE JsonMembers(t, 2, <<>>)

\* Keys of the client storage, in insertion order.
KeyOrder == << <<"j">>, <<"k">> >>

RECURSIVE JsonMembersText(_, _, _)
JsonMembersText(store, i, first) ==
    IF i > Len(KeyOrder) THEN <<>>
    ELSE IF KeyOrder[i] \in DOMAIN store
         THEN (IF first THEN <<>> ELSE <<",">>)
              \o JsonQuote(KeyOrder[i]) \o <<":">> \o JsonQuote(store[KeyOrder[i]])
              \o JsonMembersText(store, i + 1, FALSE)
         ELSE JsonMembersText(store, i + 1, first)

\* JSON.stringify(sessionStorage)
JsonStringify(store) == <<"{">> \o JsonMembersText(store, 1, TRUE) \o <<"}">>

\* The value of the JavaScript literal '<body>' of the init script: a bare
\* apostrophe ends the literal early and what follows it is no valid
\* argument list, a backslash takes the next character as it is.
RECURSIVE JsSingleQuoted(_, _)
JsSingleQuoted(body, acc) ==
    IF body = <<>> THEN [ok |-> TRUE, val |-> acc]
    ELSE IF Head(body) = Apos THEN [ok |-> FALSE, val |-> <<>>]
    ELSE IF Head(body) = Backslash
         THEN IF Len(body) < 2 THEN [ok |-> FALSE, val |-> <<>>]
              ELSE JsSingleQuoted(Tail(Tail(body)), Append(acc, body[2]))
    ELSE JsSingleQuoted(Tail(body), Append(acc, Head(body)))

EmptyStore == <<>>

\* window.sessionStorage.setItem for each entry, in order.
RECURSIVE SetItems(_, _)
SetItems(store, entries) ==
    IF entries = <<>> THEN store
    ELSE SetItems([k \in DOMAIN store \cup {Head(entries)[1]} |->
                      IF k = Head(entries)[1] THEN Head(entries)[2] ELSE store[k]],
                  Tail(entries))

TargetHost == "hiring.idenhq.com"

NoScript == [set |-> FALSE, arg |-> <<>>]

\* The session storage of a freshly loaded document on `host` once the init
\* script, if any, has run: (storage => { if (hostname === ...) { entries =
\* JSON.parse(storage); setItem each } })('<arg>')
RunInitScript(script, host) ==
    LET lit == JsSingleQuoted(script.arg, <<>>)
        obj == JsonParseObject(lit.val)
    IN  IF script.set /\ lit.ok /\ host = TargetHost /\ obj.ok
        THEN SetItems(EmptyStore, obj.entries)
        ELSE EmptyStore


\* ------------------------------------------------------------ session file
\* session.json as json.dump writes it: the cookies of storage_state and the
\* session storage text, itself a string and so JSON-quoted once more.
SessionFileOf(cookies, store) ==
    [kind |-> "json", hasState |-> TRUE, hasCookies |-> TRUE, cookies |-> cookies,
     hasStorage |-> TRUE, storage |-> JsonQuote(JsonStringify(store))]

FileAbsent ==
    [kind |-> "absent", hasState |-> FALSE, hasCookies |-> FALSE, cookies |-> <<>>,
     hasStorage |-> FALSE, storage |-> <<>>]

\* A file json.load cannot parse (also what a failed json.dump leaves behind).
FileGarbage == [FileAbsent EXCEPT !.kind = "garbage"]

\* What load_session makes of the context's cookie jar and init script.
\* `o` is what the browser answers: "ok", "cookies_error" (add_cookies
\* raises) or "script_error" (add_init_script raises).
LoadSessionView(file, o, cookies0, script0) ==
    LET same == [cookies |-> cookies0, script |-> script0, loaded |-> FALSE]
        dec  == JsonParseString(file.storage, 1)
    IN  IF file.kind = "absent" THEN same
        ELSE IF file.kind # "json" \/ (file.hasStorage /\ ~dec.ok) THEN same
        ELSE IF ~file.hasState \/ ~file.hasCookies THEN same
        ELSE IF o = "cookies_error" THEN same
        ELSE IF ~file.hasStorage \/ o = "script_error"
             THEN [cookies |-> cookies0 \o file.cookies, script |-> script0, loaded |-> FALSE]
        ELSE [cookies |-> cookies0 \o file.cookies,
              script |-> [set |-> TRUE, arg |-> dec.val], loaded |-> TRUE]

\* The line load_session prints last: "No saved session found.", "Session
\* loaded!" or "Error loading session: ...".
LoadMessage(file, loaded) ==
    IF file.kind = "absent" THEN "no_session"
    ELSE IF loaded THEN "session_loaded"
    ELSE "load_error"

\* What save_session leaves in session.json. `o` is "ok", "state_error"
\* (storage_state raises), "evaluate_error", "open_error" or "dump_error"
\* (the file was opened for writing, hence truncated, and json.dump failed).
SaveSessionFile(file, o, cookies, store) ==
    IF o = "ok" THEN SessionFileOf(cookies, store)
    ELSE IF o = "dump_error" THEN FileGarbage
    ELSE file


\* ------------------------------------------------------------ product cards
\* A card as the page shows it: the title fragment (div.h-12), which may be
\* missing, and the labeled fragments (div.p-3>div>div) in document order.
Card(hasTitle, title, frags) == [hasTitle |-> hasTitle, title |-> title, frags |-> frags]

\* Mutant of FieldOrEmpty: the `if len(inner_elements) > i` guard is
\* missing, so an absent fragment is an IndexError.
FieldOrEmpty_Strict(frags, i, label) ==
    IF Len(frags) > i - 1 THEN ParseField(frags[i], label)
    ELSE [ok |-> FALSE, val |-> <<>>, err |-> "IndexError"]

\* frags[i].split(label)[1].strip() if len(frags) > i - 1 else ""
FieldOrEmpty(frags, i, label) ==
    IF Len(frags) > i - 1 THEN ParseField(frags[i], label)
    ELSE [ok |-> TRUE, val |-> <<>>, err |-> "none"]

\* The record the body of the for loop builds from one card, or the first
\* exception it raises: text_content() on a missing title element times
\* out, a fragment without its label makes split(...)[1] an IndexError.
ParseRecord(card) ==
    LET id  == FieldOrEmpty(card.frags, 1, SepColon)
        sh  == FieldOrEmpty(card.frags, 2, SepShade)
        de  == FieldOrEmpty(card.frags, 3, SepDetails)
        gu  == FieldOrEmpty(card.frags, 4, SepGuarantee)
        rec == [name |-> Strip(card.title), id |-> id.val, shade |-> sh.val,
                details |-> de.val, guarantee |-> gu.val]
        none == [name |-> <<>>, id |-> <<>>, shade |-> <<>>, details |-> <<>>,
                 guarantee |-> <<>>]
    IN  IF ~card.hasTitle THEN [ok |-> FALSE, rec |-> none, err |-> "Timeout"]
        ELSE IF ~(id.ok /\ sh.ok /\ de.ok /\ gu.ok)
             THEN [ok |-> FALSE, rec |-> none, err |-> "IndexError"]
        ELSE [ok |-> TRUE, rec |-> rec, err |-> "none"]

CardFull ==
    Card(TRUE, <<" ","P","e","n"," ">>,
         << <<"I","D",":"," ","7">>, <<"S","h","a","d","e"," ","R","e","d">>,
            <<"D","e","t","a","i","l","s"," ","o","k">>,
            <<"G","u","a","r","a","n","t","e","e"," ","1","y">> >>)

CardShort == Card(TRUE, <<"I","n","k">>, << <<"I","D",":"," ","8">> >>)

CardNoColon == Card(TRUE, <<"I","n","k">>, << <<"I","D"," ","8">> >>)

CardNoTitle == Card(FALSE, <<>>, <<>>)

\* The cards a page of the pipeline run may show at a position.
PageCards == {CardFull, CardShort, CardNoColon, CardNoTitle}

\* ---------------------------------------------- cards of the parsing runs
\* Texts of a labeled fragment: label and value, a value that holds the
\* label or delimiter again, and a text without its label or delimiter.
FragIdPlain == <<"I","D",":"," ","7">>

FragIdColon == <<"I","D",":"," ","4",":","8">>

FragIdBad == <<"I","D"," ","7">>

FragShadePlain == <<"S","h","a","d","e"," ","R","e","d">>

FragShadeTwice == <<"S","h","a","d","e"," ","N","o"," ","S","h","a","d","e">>

FragShadeBad == <<"R","e","d">>

FragDetailsPlain == <<"D","e","t","a","i","l","s"," ","o","k">>

FragDetailsTwice == <<"D","e","t","a","i","l","s"," ","n","o"," ","D","e","t","a","i","l","s">>

FragDetailsBad == <<"o","k">>

FragGuaranteePlain == <<"G","u","a","r","a","n","t","e","e"," ","1","y">>

FragGuaranteeTwice == <<"G","u","a","r","a","n","t","e","e"," ","n","o"," ","G","u","a","r","a","n","t","e","e">>

FragGuaranteeBad == <<"1","y">>

\* The texts a fragment at position 1..4 may hold.
FragChoices ==
    << {FragIdPlain, FragIdColon, FragIdBad},
       {FragShadePlain, FragShadeTwice, FragShadeBad},
       {FragDetailsPlain, FragDetailsTwice, FragDetailsBad},
       {FragGuaranteePlain, FragGuaranteeTwice, FragGuaranteeBad} >>

\* The fragment lists of k fragments, 0 <= k <= 4.
FragLists(k) ==
    {f \in [1..k -> UNION {FragChoices[i] : i \in 1..4}] :
        \A i \in 1..k : f[i] \in FragChoices[i]}

CardTitles == { <<" ","P","e","n"," ">>, <<"I","n","k">> }

\* Every card of zero to four such fragments under either title, and the
\* card without a title element.
ParseCards ==
    {Card(TRUE, ti, f) : ti \in CardTitles, f \in UNION {FragLists(k) : k \in 0..4}}
    \cup {CardNoTitle}

\* ------------------------------------------------------------ summary texts
TextTwo == <<"S","h","o","w","i","n","g"," ","1","-","2"," ","o","f"," ","2"," ","p","r","o","d","u","c","t","s">>

TextZero == <<"S","h","o","w","i","n","g"," ","0"," ","o","f"," ","0"," ","p","r","o","d","u","c","t","s">>

TextFive == <<"S","h","o","w","i","n","g"," ","1","-","3"," ","o","f"," ","5"," ","p","r","o","d","u","c","t","s">>

\* No "of": split("of")[1] is an IndexError.
TextAll == <<"S","h","o","w","i","n","g"," ","a","l","l"," ","p","r","o","d","u","c","t","s">>

\* No number after "of": int("many") is a ValueError.
TextMany == <<"S","h","o","w","i","n","g"," ","1","-","2"," ","o","f"," ","m","a","n","y"," ","p","r","o","d","u","c","t","s">>

\* The texts the summary line of the page may show.
SummaryTexts == {TextTwo, TextZero, TextFive, TextAll, TextMany}

\* -------------------------------------------------------------------- state
VARIABLES
    pc,            \* where main() and the function it awaits stand
    run,           \* 1 for the first invocation of the script, 2 for the next
    usr, pwd,      \* USERNAME, PASSWORD of the environment
    cardPool,      \* the cards the site of this run may show at a position
    sessionFile,   \* session.json
    outputFile,    \* product_data.json
    browser,       \* "unbound", "open" or "closed"
    closeCalls,    \* number of browser.close() calls
    ctxCookies,    \* cookie jar of the browser context
    initScript,    \* init script of the context, if one was added
    pageHost,      \* host of the document the page shows
    pageStorage,   \* sessionStorage of that document
    navIdx,        \* next action of navigate_to_product_table
    summary,       \* the summary line as read_summary found it
    total_count, prev_count, count,
    rows,          \* len(rows), -1 while rows is unbound
    domCount,      \* product cards in the document right now
    shrunk,        \* did the number of cards ever go down during the run
    triggers,      \* growth triggers issued (hover on the last card + wheel)
    nreads,        \* reads of the card list
    prevRead, lastRead,   \* results of the last two reads, -1 for none
    waitResult,    \* how the last growth wait ended: "none", "grew", "timeout"
    idx,           \* cards parsed so far
    visited,       \* the cards the for loop has read, in order
    all_products,
    err,           \* message main's except clause printed, "none" if none
    exit,          \* "running", "0", or "1" (an exception left main)
    log,           \* steps and view actions outside the scroll loop, in order
    savedSnap      \* what the last successful save_session captured

fileVars == <<sessionFile, outputFile>>
viewVars == <<ctxCookies, initScript, pageHost, pageStorage>>
loopVars == <<summary, total_count, prev_count, count, rows, domCount, shrunk, triggers,
              nreads, prevRead, lastRead, waitResult>>
parseVars == <<idx, visited, all_products>>
envVars == <<run, usr, pwd, cardPool>>

vars == <<pc, envVars, fileVars, browser, closeCalls, viewVars, navIdx, loopVars,
          parseVars, err, exit, log, savedSnap>>

K == <<"k">>
J == <<"j">>

CredValues == {"unset", "", "user"}

\* Mutant of Missing: `USERNAME is None`, which lets "" through.
Missing_NoneOnly(c) == c = "unset"

\* `not USERNAME`: None and "" are both false.
Missing(c) == c \in {"unset", ""}

NoSnap == [valid |-> FALSE, cookies |-> <<>>, store |-> EmptyStore]

\* session.json as a run may find it: absent, unparsable, without its
\* "storage_state" or "session_storage" part, or written by an earlier run.
InitFiles ==
    { FileAbsent, FileGarbage,
      [SessionFileOf(<<"c1">>, K :> <<"a">>) EXCEPT !.hasState = FALSE, !.hasCookies = FALSE],
      [SessionFileOf(<<"c1">>, K :> <<"a">>) EXCEPT !.hasStorage = FALSE, !.storage = <<>>],
      SessionFileOf(<<"c1">>, K :> <<"a">>) }

NoSummary == [read |-> FALSE, present |-> FALSE, text |-> <<>>]

OldOutput == [written |-> FALSE, partial |-> FALSE, records |-> <<>>]

\* The state of a process that has just entered main().
Fresh ==
    /\ pc = "launch"
    /\ browser = "unbound" /\ closeCalls = 0
    /\ ctxCookies = <<>> /\ initScript = NoScript
    /\ pageHost = "none" /\ pageStorage = EmptyStore
    /\ navIdx = 1
    /\ summary = NoSummary
    /\ total_count = 0 /\ prev_count = -1 /\ count = 0 /\ rows = -1
    /\ domCount = 0 /\ shrunk = FALSE /\ triggers = 0 /\ nreads = 0
    /\ prevRead = -1 /\ lastRead = -1 /\ waitResult = "none"
    /\ idx = 0 /\ visited = <<>> /\ all_products = <<>>
    /\ err = "none" /\ exit = "running" /\ log = <<>>

Init ==
    /\ Fresh
    /\ run = 1
    /\ usr \in CredValues /\ pwd \in CredValues
    /\ cardPool = PageCards
    /\ sessionFile \in InitFiles
    /\ outputFile = OldOutput
    /\ savedSnap = NoSnap

\* Mutant of Raise: main catches the exception around the failed step only
\* and goes on with save_session.
Raise_SkipToSave(msg) == err' = msg /\ pc' = "save_session"

\* An exception reaches `except Exception` of main: it is printed, and the
\* finally clause is next.
Raise(msg) == err' = msg /\ pc' = "finally"

Logged(e) == log' = Append(log, e)

\* One awaited call of main or of a step function: it returns and the code
\* goes on at `next`, or it raises and msgT (for a Playwright timeout) or
\* msgE (for any other exception) reaches main.
Call(here, next, msgT, msgE) ==
    /\ pc = here
    /\ \/ pc' = next /\ err' = err
       \/ Raise(msgT)
       \/ Raise(msgE)

ViewCall(here, event, next, msgT, msgE) ==
    Call(here, next, msgT, msgE) /\ Logged(event)

\* browser = await p.chromium.launch(...)
Launch ==
    /\ pc = "launch"
    /\ Logged("launch")
    /\ \/ browser' = "open" /\ pc' = "new_context" /\ err' = err
       \/ browser' = browser /\ Raise("launch failed")
    /\ UNCHANGED <<envVars, fileVars, closeCalls, viewVars, navIdx, loopVars,
                   parseVars, exit, savedSnap>>

\* context = await browser.new_context(no_viewport=True)
NewContext ==
    /\ ViewCall("new_context", "new_context", "load_session",
                "new_context failed", "new_context failed")
    /\ UNCHANGED <<envVars, fileVars, browser, closeCalls, viewVars, navIdx,
                   loopVars, parseVars, exit, savedSnap>>

\* await load_session(context): never raises, and prints which of its three
\* ends it took.
LoadSession ==
    /\ pc = "load_session"
    /\ \E o \in {"ok", "cookies_error", "script_error"} :
          LET v == LoadSessionView(sessionFile, o, ctxCookies, initScript) IN
          /\ ctxCookies' = v.cookies
          /\ initScript' = v.script
          /\ log' = log \o <<"load_session", LoadMessage(sessionFile, v.loaded)>>
    /\ pc' = "new_page"
    /\ UNCHANGED <<envVars, fileVars, browser, closeCalls, pageHost, pageStorage,
                   navIdx, loopVars, parseVars, err, exit, savedSnap>>

\* page = await context.new_page(): an about:blank document, on which the
\* init script runs as on every document.
NewPage ==
    /\ pc = "new_page"
    /\ Logged("new_page")
    /\ \/ /\ pc' = "wait_load_state" /\ err' = err
          /\ pageHost' = "about:blank"
          /\ pageStorage' = RunInitScript(initScript, "about:blank")
       \/ Raise("new_page failed") /\ UNCHANGED <<pageHost, pageStorage>>
    /\ UNCHANGED <<envVars, fileVars, browser, closeCalls, ctxCookies, initScript,
                   navIdx, loopVars, parseVars, exit, savedSnap>>

\* page.set_default_timeout(30000); await page.wait_for_load_state("networkidle")
WaitLoadState ==
    /\ ViewCall("wait_load_state", "wait_load_state", "login",
                "wait_for_load_state timeout", "wait_for_load_state failed")
    /\ UNCHANGED <<envVars, fileVars, browser, closeCalls, viewVars, navIdx,
                   loopVars, parseVars, exit, savedSnap>>


\* ---------------------------------------------------------- login_if_needed
MsgNoCreds == "Username or Password is missing"
MsgLoginTimeout == "Login page load timeout"
MsgLoginError == "Error during login"

\* if not USERNAME or not PASSWORD: raise ValueError(...)
LoginCheckCreds ==
    /\ pc = "login"
    /\ Logged("login")
    /\ IF Missing(usr) \/ Missing(pwd) THEN Raise(MsgNoCreds)
       ELSE pc' = "goto" /\ err' = err
    /\ UNCHANGED <<envVars, fileVars, browser, closeCalls, viewVars, navIdx,
                   loopVars, parseVars, exit, savedSnap>>

\* await page.goto(LOGIN_URL, timeout=30000): the new document runs the
\* init script before any script of the page.
LoginGoto ==
    /\ ViewCall("goto", "goto", "check_marker", MsgLoginTimeout, MsgLoginError)
    /\ IF pc' = "check_marker"
       THEN /\ pageHost' = TargetHost
            /\ pageStorage' = RunInitScript(initScript, TargetHost)
       ELSE UNCHANGED <<pageHost, pageStorage>>
    /\ UNCHANGED <<envVars, fileVars, browser, closeCalls, ctxCookies, initScript,
                   navIdx, loopVars, parseVars, exit, savedSnap>>

\* if await page.locator("h3:text('Sign in')").is_visible(): ... else: ...
LoginCheckMarker ==
    /\ pc = "check_marker"
    /\ \/ pc' = "fill_email" /\ err' = err
          /\ log' = log \o <<"check_marker", "sign_in_visible">>
       \/ pc' = "navigate" /\ err' = err
          /\ log' = log \o <<"check_marker", "sign_in_hidden">>
       \/ Raise(MsgLoginError) /\ Logged("check_marker")
    /\ UNCHANGED <<envVars, fileVars, browser, closeCalls, viewVars, navIdx,
                   loopVars, parseVars, exit, savedSnap>>

\* await page.fill("input#email", USERNAME)
LoginFillEmail ==
    /\ ViewCall("fill_email", "fill_email", "fill_password", MsgLoginTimeout, MsgLoginError)
    /\ UNCHANGED <<envVars, fileVars, browser, closeCalls, viewVars, navIdx,
                   loopVars, parseVars, exit, savedSnap>>

\* await page.fill("input#password", PASSWORD)
LoginFillPassword ==
    /\ ViewCall("fill_password", "fill_password", "click_submit", MsgLoginTimeout, MsgLoginError)
    /\ UNCHANGED <<envVars, fileVars, browser, closeCalls, viewVars, navIdx,
                   loopVars, parseVars, exit, savedSnap>>

\* Mutant of LoginSubmit: the wait for the signed-in marker is skipped.
LoginSubmit_NoWait ==
    /\ ViewCall("click_submit", "click_submit", "navigate", MsgLoginTimeout, MsgLoginError)
    /\ UNCHANGED <<envVars, fileVars, browser, closeCalls, viewVars, navIdx,
                   loopVars, parseVars, exit, savedSnap>>

\* await page.click("button[type='submit']")
LoginSubmit ==
    /\ ViewCall("click_submit", "click_submit", "wait_sign_out", MsgLoginTimeout, MsgLoginError)
    /\ UNCHANGED <<envVars, fileVars, browser, closeCalls, viewVars, navIdx,
                   loopVars, parseVars, exit, savedSnap>>

\* What the site leaves in the cookie jar and the session storage when it
\* signs the user in.
LoginSnapshots ==
    { [cookies |-> <<"c1">>, store |-> K :> <<"a">>],
      [cookies |-> <<"c1", "c2">>, store |-> (K :> <<"'">>) @@ (J :> <<"a">>)] }

\* await page.wait_for_selector("text='Sign out'", timeout=10000)
LoginWaitSignOut ==
    /\ pc = "wait_sign_out"
    /\ \/ /\ pc' = "navigate" /\ err' = err
          /\ log' = log \o <<"wait_sign_out", "sign_out_visible">>
          /\ \E snap \in LoginSnapshots :
                ctxCookies' = snap.cookies /\ pageStorage' = snap.store
       \/ /\ \/ Raise(MsgLoginTimeout)
             \/ Raise(MsgLoginError)
          /\ Logged("wait_sign_out")
          /\ UNCHANGED <<ctxCookies, pageStorage>>
    /\ UNCHANGED <<envVars, fileVars, browser, closeCalls, initScript, pageHost,
                   navIdx, loopVars, parseVars, exit, savedSnap>>

\* ------------------------------------------------ navigate_to_product_table
MsgNavTimeout == "Timeout while navigating to product table"
MsgNavError == "Error during navigation"

NavActions ==
    <<"wait_launch_challenge", "click_launch_challenge", "click_dashboard",
      "click_inventory", "click_products", "click_full_catalog",
      "wait_product_inventory">>

\* The next wait or click of the fixed path to the catalog.
NavStep ==
    /\ pc = "navigate"
    /\ Logged(NavActions[navIdx])
    /\ \/ /\ navIdx' = navIdx + 1 /\ err' = err
          /\ pc' = IF navIdx = Len(NavActions) THEN "extract" ELSE "navigate"
       \/ /\ \/ Raise(MsgNavTimeout)
             \/ Raise(MsgNavError)
          /\ navIdx' = navIdx
    /\ UNCHANGED <<envVars, fileVars, browser, closeCalls, viewVars, loopVars,
                   parseVars, exit, savedSnap>>


\* --------------------------------------------------------- extract_products
MsgExtractTimeout == "Timeout while extracting products"
MsgExtractError == "Error extracting products"

\* Mutant of LoopTest: `while count <= total_count`.
LoopTest_Inclusive(c, t) == IF c <= t THEN "read_rows" ELSE "for_rows"

\* while count < total_count:
LoopTest(c, t) == IF c < t THEN "read_rows" ELSE "for_rows"

\* await page.wait_for_selector("//h3[contains(text(),'Product Inventory')]")
ExtractWaitHeader ==
    /\ ViewCall("extract", "extract", "read_summary", MsgExtractTimeout, MsgExtractError)
    /\ UNCHANGED <<envVars, fileVars, browser, closeCalls, viewVars, navIdx,
                   loopVars, parseVars, exit, savedSnap>>

\* The summary line is read and parsed, prev_count = -1, count = 0, and the
\* loop condition is tested for the first time. Without a summary element
\* text_content() times out.
ReadSummary ==
    /\ pc = "read_summary"
    /\ Logged("read_summary")
    /\ \/ /\ Raise(MsgExtractTimeout)
          /\ summary' = [read |-> TRUE, present |-> FALSE, text |-> <<>>]
          /\ UNCHANGED <<total_count, prev_count, count>>
       \/ \E t \in SummaryTexts :
             LET p == ParseTotal(t) IN
             /\ summary' = [read |-> TRUE, present |-> TRUE, text |-> t]
             /\ IF p.ok
                THEN /\ total_count' = p.val /\ prev_count' = -1 /\ count' = 0
                     /\ pc' = LoopTest(0, p.val) /\ err' = err
                ELSE /\ Raise(MsgExtractError)
                     /\ UNCHANGED <<total_count, prev_count, count>>
    /\ UNCHANGED <<envVars, fileVars, browser, closeCalls, viewVars, navIdx, rows,
                   domCount, shrunk, triggers, nreads, prevRead, lastRead, waitResult,
                   parseVars, exit, savedSnap>>

\* Mutant of ReadRows: the `if count == prev_count: break` is missing.
ReadRows_NoBreak ==
    /\ pc = "read_rows"
    /\ \E d \in 0..MaxItems :
          /\ domCount' = d
          /\ shrunk' = (shrunk \/ d < domCount)
          /\ rows' = d /\ count' = d
          /\ prevRead' = lastRead /\ lastRead' = d
          /\ prev_count' = d
          /\ pc' = IF d < total_count THEN "hover" ELSE LoopTest(d, total_count)
    /\ nreads' = nreads + 1
    /\ UNCHANGED <<envVars, fileVars, browser, closeCalls, viewVars, navIdx,
                   summary, total_count, triggers, waitResult, parseVars, err, exit, log,
                   savedSnap>>

\* rows = await locator.all(); count = len(rows); break when count ==
\* prev_count; prev_count = count; then either the growth trigger or the
\* loop condition again. The page shows d cards at the time of the read.
ReadRows ==
    /\ pc = "read_rows"
    /\ \E d \in 0..MaxItems :
          /\ domCount' = d
          /\ shrunk' = (shrunk \/ d < domCount)
          /\ rows' = d /\ count' = d
          /\ prevRead' = lastRead /\ lastRead' = d
          /\ IF d = prev_count
             THEN pc' = "for_rows" /\ prev_count' = prev_count
             ELSE /\ prev_count' = d
                  /\ pc' = IF d < total_count THEN "hover" ELSE LoopTest(d, total_count)
    /\ nreads' = nreads + 1
    /\ UNCHANGED <<envVars, fileVars, browser, closeCalls, viewVars, navIdx,
                   summary, total_count, triggers, waitResult, parseVars, err, exit, log,
                   savedSnap>>

\* await rows[-1].hover(): rows[-1] of an empty list is an IndexError.
Hover ==
    /\ pc = "hover"
    /\ triggers < MaxTriggers
    /\ IF count = 0
       THEN Raise(MsgExtractError) /\ triggers' = triggers
       ELSE /\ triggers' = triggers + 1
            /\ \/ pc' = "wheel" /\ err' = err
               \/ Raise(MsgExtractTimeout)
               \/ Raise(MsgExtractError)
    /\ UNCHANGED <<envVars, fileVars, browser, closeCalls, viewVars, navIdx,
                   summary, total_count, prev_count, count, rows, domCount, shrunk, nreads,
                   prevRead, lastRead, waitResult, parseVars, exit, log, savedSnap>>

\* await page.mouse.wheel(0, 200)
Wheel ==
    /\ Call("wheel", "wait_growth", MsgExtractError, MsgExtractError)
    /\ UNCHANGED <<envVars, fileVars, browser, closeCalls, viewVars, navIdx,
                   loopVars, parseVars, exit, log, savedSnap>>

\* Mutant of WaitGrowth: the timeout of the wait is swallowed and the loop
\* goes on to its next read.
WaitGrowth_NoRaise ==
    /\ pc = "wait_growth"
    /\ \E d \in 0..MaxItems :
          /\ domCount' = d
          /\ shrunk' = (shrunk \/ d < domCount)
          /\ pc' = LoopTest(count, total_count) /\ err' = err
          /\ waitResult' = IF d > count THEN "grew" ELSE "timeout"
    /\ UNCHANGED <<envVars, fileVars, browser, closeCalls, viewVars, navIdx,
                   summary, total_count, prev_count, count, rows, triggers, nreads,
                   prevRead, lastRead, parseVars, exit, log, savedSnap>>

\* Mutant of WaitGrowth: a timeout of the wait ends the loop like a break.
WaitGrowth_BreakOnTimeout ==
    /\ pc = "wait_growth"
    /\ \E d \in 0..MaxItems :
          /\ domCount' = d
          /\ shrunk' = (shrunk \/ d < domCount)
          /\ pc' = IF d > count THEN LoopTest(count, total_count) ELSE "for_rows"
          /\ err' = err
          /\ waitResult' = IF d > count THEN "grew" ELSE "timeout"
    /\ UNCHANGED <<envVars, fileVars, browser, closeCalls, viewVars, navIdx,
                   summary, total_count, prev_count, count, rows, triggers, nreads,
                   prevRead, lastRead, parseVars, exit, log, savedSnap>>

\* Mutant of WaitGrowth: the wait is for `length >= count`, which the cards
\* already on the page satisfy.
WaitGrowth_AtLeast ==
    /\ pc = "wait_growth"
    /\ \E d \in 0..MaxItems :
          /\ domCount' = d
          /\ shrunk' = (shrunk \/ d < domCount)
          /\ IF d >= count
             THEN /\ pc' = LoopTest(count, total_count) /\ err' = err
                  /\ waitResult' = "grew"
             ELSE Raise(MsgExtractTimeout) /\ waitResult' = "timeout"
    /\ UNCHANGED <<envVars, fileVars, browser, closeCalls, viewVars, navIdx,
                   summary, total_count, prev_count, count, rows, triggers, nreads,
                   prevRead, lastRead, parseVars, exit, log, savedSnap>>

\* await page.wait_for_function("...length > " + str(count), timeout=5000):
\* returns when the page shows more than count cards, times out when it
\* does not within 5 s; then the loop condition, which still holds.
WaitGrowth ==
    /\ pc = "wait_growth"
    /\ \E d \in 0..MaxItems :
          /\ domCount' = d
          /\ shrunk' = (shrunk \/ d < domCount)
          /\ IF d > count
             THEN /\ pc' = LoopTest(count, total_count) /\ err' = err
                  /\ waitResult' = "grew"
             ELSE Raise(MsgExtractTimeout) /\ waitResult' = "timeout"
    /\ UNCHANGED <<envVars, fileVars, browser, closeCalls, viewVars, navIdx,
                   summary, total_count, prev_count, count, rows, triggers, nreads,
                   prevRead, lastRead, parseVars, exit, log, savedSnap>>

\* for item in rows: with rows never assigned (the loop body never ran)
\* this is an UnboundLocalError, which `except Exception` wraps.
ForRows ==
    /\ pc = "for_rows"
    /\ Logged("for_rows")
    /\ IF rows = -1 THEN Raise(MsgExtractError)
       ELSE pc' = "parse" /\ err' = err
    /\ UNCHANGED <<envVars, fileVars, browser, closeCalls, viewVars, navIdx,
                   loopVars, parseVars, exit, savedSnap>>

\* Mutant of ParseItem: a card that cannot be parsed is skipped.
ParseItem_SkipBad ==
    /\ pc = "parse"
    /\ idx < rows
    /\ \E card \in cardPool :
          LET r == ParseRecord(card) IN
          /\ all_products' = IF r.ok THEN Append(all_products, r.rec) ELSE all_products
          /\ visited' = Append(visited, card)
          /\ idx' = idx + 1
          /\ pc' = pc /\ err' = err
    /\ UNCHANGED <<envVars, fileVars, browser, closeCalls, viewVars, navIdx,
                   loopVars, exit, log, savedSnap>>

\* One pass of the for loop: the card at the next position is read and its
\* record appended.
ParseItem ==
    /\ pc = "parse"
    /\ idx < rows
    /\ \E card \in cardPool :
          LET r == ParseRecord(card) IN
          IF r.ok
          THEN /\ all_products' = Append(all_products, r.rec)
               /\ visited' = Append(visited, card)
               /\ idx' = idx + 1
               /\ pc' = pc /\ err' = err
          ELSE /\ Raise(IF r.err = "Timeout" THEN MsgExtractTimeout ELSE MsgExtractError)
               /\ visited' = Append(visited, card)
               /\ UNCHANGED <<idx, all_products>>
    /\ UNCHANGED <<envVars, fileVars, browser, closeCalls, viewVars, navIdx,
                   loopVars, exit, log, savedSnap>>

\* return all_products
ExtractReturn ==
    /\ pc = "parse"
    /\ idx = rows
    /\ pc' = "save_to_json"
    /\ Logged("extracted")
    /\ UNCHANGED <<envVars, fileVars, browser, closeCalls, viewVars, navIdx,
                   loopVars, parseVars, err, exit, savedSnap>>

\* --------------------------------------------------- save_to_json and after
MsgSaveError == "Failed to save data"

\* open(OUTPUT_FILE, "w") and json.dump(data, f): the file holds the
\* records, or open failed and it is untouched, or it was truncated and
\* the dump failed.
SaveToJson ==
    /\ pc = "save_to_json"
    /\ Logged("save_to_json")
    /\ \/ /\ outputFile' = [written |-> TRUE, partial |-> FALSE, records |-> all_products]
          /\ pc' = "save_session" /\ err' = err
       \/ outputFile' = outputFile /\ Raise(MsgSaveError)
       \/ /\ outputFile' = [written |-> FALSE, partial |-> TRUE, records |-> <<>>]
          /\ Raise(MsgSaveError)
    /\ UNCHANGED <<envVars, sessionFile, browser, closeCalls, viewVars, navIdx,
                   loopVars, parseVars, exit, savedSnap>>

\* Mutant of SaveSession: the exception of a failed save is raised again.
SaveSession_Propagates ==
    /\ pc = "save_session"
    /\ \E o \in {"ok", "state_error", "evaluate_error", "open_error", "dump_error"} :
          /\ sessionFile' = SaveSessionFile(sessionFile, o, ctxCookies, pageStorage)
          /\ savedSnap' = IF o = "ok"
                          THEN [valid |-> TRUE, cookies |-> ctxCookies, store |-> pageStorage]
                          ELSE savedSnap
          /\ log' = log \o <<"save_session", IF o = "ok" THEN "session_saved" ELSE "save_error">>
          /\ err' = IF o = "ok" THEN err ELSE "save_session failed"
    /\ pc' = "finally"
    /\ UNCHANGED <<envVars, outputFile, browser, closeCalls, viewVars, navIdx,
                   loopVars, parseVars, exit>>

\* await save_session(context, page): never raises, and prints whether the
\* session was saved.
SaveSession ==
    /\ pc = "save_session"
    /\ \E o \in {"ok", "state_error", "evaluate_error", "open_error", "dump_error"} :
          /\ sessionFile' = SaveSessionFile(sessionFile, o, ctxCookies, pageStorage)
          /\ savedSnap' = IF o = "ok"
                          THEN [valid |-> TRUE, cookies |-> ctxCookies, store |-> pageStorage]
                          ELSE savedSnap
          /\ log' = log \o <<"save_session", IF o = "ok" THEN "session_saved" ELSE "save_error">>
    /\ pc' = "finally"
    /\ UNCHANGED <<envVars, outputFile, browser, closeCalls, viewVars, navIdx,
                   loopVars, parseVars, err, exit>>

\* Mutant of CloseBrowser: the close is the last statement of the try
\* block, so it is skipped when an exception was caught.
CloseBrowser_OnSuccess ==
    /\ pc = "finally"
    /\ pc' = "done"
    /\ IF browser = "unbound" \/ err # "none"
       THEN exit' = "0" /\ UNCHANGED <<browser, closeCalls, log>>
       ELSE /\ browser' = "closed"
            /\ closeCalls' = closeCalls + 1
            /\ Logged("close")
            /\ exit' \in {"0", "1"}
    /\ UNCHANGED <<envVars, fileVars, viewVars, navIdx, loopVars, parseVars, err,
                   savedSnap>>

\* finally: await browser.close(). With browser never assigned (launch
\* failed) this raises and the exception leaves main; so does a failing
\* close. Otherwise main returns and the process ends with status 0.
CloseBrowser ==
    /\ pc = "finally"
    /\ pc' = "done"
    /\ IF browser = "unbound"
       THEN exit' = "1" /\ UNCHANGED <<browser, closeCalls, log>>
       ELSE /\ browser' = "closed"
            /\ closeCalls' = closeCalls + 1
            /\ Logged("close")
            /\ exit' \in {"0", "1"}
    /\ UNCHANGED <<envVars, fileVars, viewVars, navIdx, loopVars, parseVars, err,
                   savedSnap>>

\* ------------------------------------------------- two runs, one snapshot
ValueChars == {"a", Apos, Quote, Backslash}

TextsUpTo(n) == UNION {[1..m -> ValueChars] : m \in 0..n}

\* Session storages of the round trip: key k with any value of up to
\* MaxValLen characters, key j absent or with a value of at most one.
SessionStores ==
    {EmptyStore} \cup {K :> v : v \in TextsUpTo(MaxValLen)}
    \cup {(J :> w) @@ (K :> v) : w \in TextsUpTo(1), v \in TextsUpTo(MaxValLen)}

CookieJars == {<<>>, <<"c1", "c2">>}

\* The script is started again: a new process, the files of the last one.
Restart ==
    /\ pc = "done" /\ run = 1
    /\ run' = 2
    /\ pc' = "launch"
    /\ browser' = "unbound" /\ closeCalls' = 0
    /\ ctxCookies' = <<>> /\ initScript' = NoScript
    /\ pageHost' = "none" /\ pageStorage' = EmptyStore
    /\ navIdx' = 1
    /\ summary' = NoSummary
    /\ total_count' = 0 /\ prev_count' = -1 /\ count' = 0 /\ rows' = -1
    /\ domCount' = 0 /\ shrunk' = FALSE /\ triggers' = 0 /\ nreads' = 0
    /\ prevRead' = -1 /\ lastRead' = -1 /\ waitResult' = "none"
    /\ idx' = 0 /\ visited' = <<>> /\ all_products' = <<>>
    /\ err' = "none" /\ exit' = "running" /\ log' = <<>>
    /\ UNCHANGED <<usr, pwd, cardPool, fileVars, savedSnap>>

TwoShort == <<ParseRecord(CardShort).rec, ParseRecord(CardShort).rec>>

\* A first run that found no session file, signed in, found both cards of a
\* two-card catalog loaded, has written them and is about to save the
\* session; the site has left any cookie jar and session storage.
InitSession ==
    /\ pc = "save_session" /\ run = 1
    /\ usr = "user" /\ pwd = "user"
    /\ cardPool = PageCards
    /\ sessionFile = FileAbsent
    /\ outputFile = [written |-> TRUE, partial |-> FALSE, records |-> TwoShort]
    /\ browser = "open" /\ closeCalls = 0
    /\ ctxCookies \in CookieJars /\ initScript = NoScript
    /\ pageHost = TargetHost /\ pageStorage \in SessionStores
    /\ navIdx = Len(NavActions) + 1
    /\ summary = [read |-> TRUE, present |-> TRUE, text |-> TextTwo]
    /\ total_count = 2 /\ prev_count = 2 /\ count = 2 /\ rows = 2
    /\ domCount = 2 /\ shrunk = FALSE /\ triggers = 0 /\ nreads = 1
    /\ prevRead = -1 /\ lastRead = 2 /\ waitResult = "none"
    /\ idx = 2 /\ visited = <<CardShort, CardShort>> /\ all_products = TwoShort
    /\ err = "none" /\ exit = "running"
    /\ log = <<"launch", "new_context", "load_session", "no_session", "new_page",
               "wait_load_state",
               "login", "goto", "check_marker", "sign_in_visible", "fill_email",
               "fill_password", "click_submit", "wait_sign_out", "sign_out_visible">>
             \o NavActions
             \o <<"extract", "read_summary", "for_rows", "extracted", "save_to_json">>
    /\ savedSnap = NoSnap

NextSession ==
    \/ SaveSession \/ CloseBrowser \/ Restart
    \/ Launch \/ NewContext \/ LoadSession \/ NewPage \/ WaitLoadState
    \/ LoginCheckCreds \/ LoginGoto

SpecSession == InitSession /\ [][NextSession]_vars

\* ------------------------------------------------ the for loop, any cards
\* A run that signed in, found both cards of a two-card catalog loaded and
\* is about to parse them; the cards are any of ParseCards.
InitParse ==
    /\ pc = "parse" /\ run = 1
    /\ usr = "user" /\ pwd = "user"
    /\ cardPool = ParseCards
    /\ sessionFile = FileAbsent
    /\ outputFile = OldOutput
    /\ browser = "open" /\ closeCalls = 0
    /\ ctxCookies = <<"c1">> /\ initScript = NoScript
    /\ pageHost = TargetHost /\ pageStorage = K :> <<"a">>
    /\ navIdx = Len(NavActions) + 1
    /\ summary = [read |-> TRUE, present |-> TRUE, text |-> TextTwo]
    /\ total_count = 2 /\ prev_count = 2 /\ count = 2 /\ rows = 2
    /\ domCount = 2 /\ shrunk = FALSE /\ triggers = 0 /\ nreads = 1
    /\ prevRead = -1 /\ lastRead = 2 /\ waitResult = "none"
    /\ idx = 0 /\ visited = <<>> /\ all_products = <<>>
    /\ err = "none" /\ exit = "running"
    /\ log = <<"launch", "new_context", "load_session", "no_session", "new_page",
               "wait_load_state",
               "login", "goto", "check_marker", "sign_in_visible", "fill_email",
               "fill_password", "click_submit", "wait_sign_out", "sign_out_visible">>
             \o NavActions
             \o <<"extract", "read_summary", "for_rows">>
    /\ savedSnap = NoSnap

NextParse == ParseItem \/ ExtractReturn \/ SaveToJson

SpecParse == InitParse /\ [][NextParse]_vars

Next ==
    \/ Launch \/ NewContext \/ LoadSession \/ NewPage \/ WaitLoadState
    \/ LoginCheckCreds \/ LoginGoto \/ LoginCheckMarker \/ LoginFillEmail
    \/ LoginFillPassword \/ LoginSubmit \/ LoginWaitSignOut
    \/ NavStep
    \/ ExtractWaitHeader \/ ReadSummary \/ ReadRows \/ Hover \/ Wheel \/ WaitGrowth
    \/ ForRows \/ ParseItem \/ ExtractReturn
    \/ SaveToJson \/ SaveSession \/ CloseBrowser

Spec == Init /\ [][Next]_vars

\* Every awaited call of the run returns or raises within its timeout, so a
\* run that can take a step takes one.
SpecLive == Spec /\ WF_vars(Next)

\* ------------------------------------------------------------------ claims
InLoop == pc \in {"read_rows", "hover", "wheel", "wait_growth"}

\* A read of the card list has returned at least total_count cards.
ReachedTotal == lastRead >= 0 /\ lastRead >= total_count

\* C1: once a read of the card list returns a count >= total_count, the
\* scroll loop is left with the cards of that read (rows is that read, and
\* the returned list has one record per card of it), and no growth trigger
\* and no further read follows; when it was the first read, no growth
\* trigger was issued at all.
C1_TerminationLaw ==
    /\ [](ReachedTotal =>
            /\ ~InLoop
            /\ rows = lastRead
            /\ (nreads = 1 => triggers = 0)
            /\ (pc = "save_to_json" => Len(all_products) = lastRead))
    /\ [][ReachedTotal => (triggers' = triggers /\ nreads' = nreads)]_vars

\* C1 witness: after one growth trigger the second read returned the two
\* cards of a two-card catalog and both records were returned.
C1_Witness ==
    /\ pc = "save_to_json" /\ total_count = 2
    /\ nreads = 2 /\ triggers = 1 /\ prevRead = 1 /\ lastRead = 2
    /\ Len(all_products) = 2

\* Two consecutive reads of the card list returned the same count.
Stalled == nreads >= 2 /\ prevRead = lastRead

\* C2: when two consecutive reads of the card list return the same count,
\* the read that finds it leaves the loop without an error, no growth
\* trigger and no read follows, and the cards of the last read are what
\* is returned, also when the count is below total_count.
C2_StabilizationLaw ==
    /\ [](Stalled =>
            /\ ~InLoop
            /\ rows = lastRead
            /\ (pc = "save_to_json" => Len(all_products) = lastRead))
    /\ [][Stalled => (triggers' = triggers /\ nreads' = nreads)]_vars
    /\ [][(nreads' = nreads + 1 /\ nreads' >= 2 /\ lastRead' = prevRead')
            => (pc' = "for_rows" /\ err' = "none")]_vars

\* C2 witness: one card, a growth trigger, one card again, with five
\* announced; the one record was returned.
C2_Witness ==
    /\ pc = "save_to_json" /\ total_count = 5
    /\ nreads = 2 /\ prevRead = 1 /\ lastRead = 1
    /\ Len(all_products) = 1

InLog(e) == \E i \in 1..Len(log) : log[i] = e

\* The summary line was looked for and is absent or holds no total.
SummaryUnusable ==
    summary.read /\ (~summary.present \/ summary.text \in {TextAll, TextMany})

\* C3 (as claimed): with a summary whose total is 0 the collection issues
\* no growth trigger, does not fail, and returns an empty list.
C3_ZeroTotalReturnsEmpty ==
    (summary.read /\ summary.present /\ summary.text = TextZero) =>
        /\ triggers = 0
        /\ err \notin {MsgExtractTimeout, MsgExtractError}
        /\ (pc \in {"save_to_json", "save_session"} => all_products = <<>>)

\* C4: when the summary line is absent or cannot be parsed to an integer,
\* extract_products has raised, the error has reached main, and there was
\* no growth trigger and no read of the card list; nothing was written.
C4_BadSummaryIsFatal ==
    SummaryUnusable =>
        /\ pc \in {"finally", "done"}
        /\ err \in {MsgExtractTimeout, MsgExtractError}
        /\ triggers = 0 /\ nreads = 0
        /\ outputFile = OldOutput

\* C4 witness: the run that read "... of many products" has ended.
C4_Witness ==
    /\ summary.read /\ summary.present /\ summary.text = TextMany
    /\ pc = "done" /\ err = MsgExtractError

\* The messages of the failures of login, navigation and extraction.
StepFailures ==
    {MsgNoCreds, MsgLoginTimeout, MsgLoginError, MsgNavTimeout, MsgNavError,
     MsgExtractTimeout, MsgExtractError}

\* C5: when login, navigation, collection or the parsing of a card failed,
\* product_data.json is as it was before the run; it is touched only after
\* every card of the final read was parsed, and once written it holds one
\* record per card, the records of the cards in the order they were read.
C5_AllOrNothing ==
    /\ (err \in StepFailures => outputFile = OldOutput)
    /\ (outputFile # OldOutput =>
            /\ InLog("extracted")
            /\ rows >= 0 /\ idx = rows /\ Len(visited) = rows)
    /\ (outputFile.written =>
            /\ Len(outputFile.records) = rows
            /\ \A i \in 1..rows :
                  /\ ParseRecord(visited[i]).ok
                  /\ outputFile.records[i] = ParseRecord(visited[i]).rec)

\* C5 witness: two different cards were written, in the order read.
C5_Witness ==
    /\ outputFile.written /\ Len(outputFile.records) = 2
    /\ visited = <<CardFull, CardShort>>

\* C6 (as claimed): a run in which main caught an exception ends with a
\* failure exit status, and exit status 0 means the records were written.
C6_FailureExitStatus ==
    pc = "done" =>
        /\ (err # "none" => exit = "1")
        /\ (exit = "0" => outputFile.written)

\* C7: once the browser was launched, browser.close() has been called
\* exactly once when the run is over and not before, as the last thing
\* the run does, whichever step failed or none.
C7_ClosedExactlyOnce ==
    browser # "unbound" =>
        /\ closeCalls = (IF pc = "done" THEN 1 ELSE 0)
        /\ (pc = "done" => browser = "closed" /\ log[Len(log)] = "close")

\* C7 witness: a run whose navigation timed out has closed the browser.
C7_Witness == pc = "done" /\ closeCalls = 1 /\ err = MsgNavTimeout

\* C8 (as claimed): what the second run restores on the target origin is
\* what the first run saved, for every non-empty snapshot.
C8_RoundTrip ==
    ( /\ run = 2 /\ pc = "check_marker"
      /\ savedSnap.valid
      /\ (savedSnap.cookies # <<>> \/ savedSnap.store # EmptyStore)
      /\ InLog("session_loaded") )
    => (ctxCookies = savedSnap.cookies /\ pageStorage = savedSnap.store)

\* USERNAME or PASSWORD is unset or empty.
CredsMissing == usr \in {"unset", ""} \/ pwd \in {"unset", ""}

AfterCredsCheck ==
    {"goto", "check_marker", "fill_email", "fill_password", "click_submit",
     "wait_sign_out", "extract", "read_summary", "for_rows", "extracted",
     "save_to_json", "save_session"}
    \cup {NavActions[i] : i \in 1..Len(NavActions)}

\* C9: with USERNAME or PASSWORD unset or empty, login_if_needed raises
\* at once: the run issues no goto, marker check, fill or submit, no later
\* step runs, and main has the configuration error.
C9_MissingCredentials ==
    CredsMissing =>
        /\ \A e \in AfterCredsCheck : ~InLog(e)
        /\ (InLog("login") => err = MsgNoCreds /\ pc \in {"finally", "done"})
        /\ outputFile = OldOutput /\ ~savedSnap.valid

\* C9 witness: a run with an empty USERNAME and a PASSWORD has ended.
C9_Witness == usr = "" /\ pwd = "user" /\ InLog("login") /\ pc = "done"

FormEvents ==
    <<"fill_email", "fill_password", "click_submit", "wait_sign_out", "sign_out_visible">>

IsFormEvent(e) == \E i \in 1..Len(FormEvents) : FormEvents[i] = e

\* The login actions of the run so far, in order.
LoginActs == SelectSeq(log, IsFormEvent)

IsPrefix(a, b) == Len(a) <= Len(b) /\ a = SubSeq(b, 1, Len(a))

\* The state of the login state machine the run is in.
AuthState ==
    IF InLog("sign_in_hidden") \/ InLog("sign_out_visible") THEN "Authenticated"
    ELSE IF InLog("click_submit") THEN "Authenticating"
    ELSE IF InLog("sign_in_visible") THEN "NeedsLogin"
    ELSE "Unknown"

\* C10: with the sign-in marker not visible the run goes straight on to the
\* navigation and issues no fill or submit; with it visible the run fills
\* the e-mail, fills the password, submits and waits for the signed-in
\* marker, in this order; the navigation starts only when Authenticated.
C10_AuthStateMachine ==
    /\ (InLog("sign_in_hidden") => LoginActs = <<>> /\ ~InLog("sign_in_visible"))
    /\ (log # <<>> /\ log[Len(log)] = "sign_in_hidden" => pc = "navigate")
    /\ (LoginActs # <<>> => InLog("sign_in_visible"))
    /\ IsPrefix(LoginActs, FormEvents)
    /\ (pc = "navigate" \/ InLog(NavActions[1]) => AuthState = "Authenticated")
    /\ (InLog("sign_in_visible") /\ AuthState = "Authenticated" => LoginActs = FormEvents)

\* C10 witness: the form was filled and submitted, the signed-in marker
\* appeared, and the navigation is about to start.
C10_Witness == pc = "navigate" /\ navIdx = 1 /\ LoginActs = FormEvents

\* The label or delimiter of the fragment at each position.
Labels == <<SepColon, SepShade, SepDetails, SepGuarantee>>

\* The field of a record that the fragment at position j fills.
FieldOf(r, j) ==
    CASE j = 1 -> r.id [] j = 2 -> r.shade [] j = 3 -> r.details [] j = 4 -> r.guarantee

\* The text after the first occurrence of sep in text.
RightOfFirst(text, sep) == Slice(text, Find(text, sep) + Len(sep), Len(text))

\* The text between the first occurrence of sep and the next one, or the
\* end of the text.
Between(text, sep) ==
    LET rest == RightOfFirst(text, sep) IN
    IF Find(rest, sep) = 0 THEN rest ELSE Slice(rest, 1, Find(rest, sep) - 1)

\* The card has its title and each of its fragments holds its label.
WellFormed(card) ==
    /\ card.hasTitle
    /\ \A j \in 1..Len(card.frags) : Find(card.frags[j], Labels[j]) # 0

ExtractFailures == {MsgExtractTimeout, MsgExtractError}

\* C11: a card with its title and k well-formed fragments, 0 <= k <= 4, is
\* parsed without an error whatever k is: its record has the stripped title
\* as name, the fields of positions 1..k taken from the fragments at these
\* positions, and "" in the fields of positions k+1..4.
C11_MissingFragmentsDefault ==
    /\ ((\A i \in 1..Len(visited) : WellFormed(visited[i])) =>
            err \notin ExtractFailures /\ Len(all_products) = Len(visited))
    /\ \A i \in 1..Len(visited) :
          WellFormed(visited[i]) =>
             /\ i <= Len(all_products)
             /\ all_products[i].name = Strip(visited[i].title)
             /\ \A j \in 1..4 :
                   FieldOf(all_products[i], j) =
                      IF j > Len(visited[i].frags) THEN <<>>
                      ELSE Strip(Between(visited[i].frags[j], Labels[j]))

\* C11 witness: a card with two fragments was parsed, its shade is set and
\* its details and guarantee are "".
C11_Witness ==
    /\ Len(all_products) >= 1 /\ Len(visited[1].frags) = 2
    /\ all_products[1].name = <<"P","e","n">>
    /\ all_products[1].shade = <<"R","e","d">>
    /\ all_products[1].details = <<>> /\ all_products[1].guarantee = <<>>

\* C12 (as claimed): the field parsed from a fragment that holds its label
\* or delimiter is the stripped text to the right of the first occurrence
\* of it, whatever the value is, also a value that holds the delimiter or
\* the label again.
C12_LabelStripping ==
    \A i \in 1..Len(all_products) :
       \A j \in 1..Len(visited[i].frags) :
          Find(visited[i].frags[j], Labels[j]) # 0 =>
             FieldOf(all_products[i], j) = Strip(RightOfFirst(visited[i].frags[j], Labels[j]))

\* C13 (as claimed): when the growth wait after a trigger saw no growth,
\* the collection does not end in an error: it stops and returns the cards
\* of the last read.
C13_DivergenceGuard ==
    waitResult = "timeout" =>
        /\ err \notin ExtractFailures
        /\ (pc = "save_to_json" => Len(all_products) = lastRead)

\* C13 (amended): when the growth wait after the trigger at K cards, K
\* below total_count, saw no growth, extract_products ends in the timeout
\* error and returns nothing; the loop is left through count == prev_count
\* below total_count only when the wait saw more cards and the page showed
\* fewer again at the next read.
C13_StallIsTimeout ==
    /\ (waitResult = "timeout" =>
            /\ 1 <= lastRead /\ lastRead < total_count
            /\ pc \in {"finally", "done"} /\ err = MsgExtractTimeout
            /\ ~InLog("extracted"))
    /\ (Stalled /\ lastRead < total_count => shrunk /\ waitResult = "grew")

\* C13 witness: five cards announced, two loaded, the wait after the
\* trigger at two ran out and the run has ended.
C13_Witness ==
    /\ waitResult = "timeout" /\ total_count = 5 /\ lastRead = 2 /\ domCount = 2
    /\ ~shrunk /\ pc = "done"

\* C14: when the growth wait after a trigger saw no growth, extract_products
\* ends in the timeout error: the read before that trigger stays the last
\* read and that trigger the last trigger, no card is parsed, and the run
\* ends without writing the output file.
C14_GrowthTimeoutIsFatal ==
    waitResult = "timeout" =>
        /\ pc \in {"finally", "done"} /\ err = MsgExtractTimeout
        /\ nreads = triggers
        /\ idx = 0 /\ visited = <<>> /\ all_products = <<>>
        /\ ~InLog("for_rows") /\ ~InLog("extracted")
        /\ outputFile = OldOutput

\* C14 witness: the first wait saw growth, the wait after the second trigger
\* ran out, and the run has ended.
C14_Witness ==
    /\ waitResult = "timeout" /\ triggers = 2 /\ nreads = 2 /\ lastRead > prevRead
    /\ prevRead >= 1 /\ pc = "done" /\ exit = "0"

\* The first event of each step of main, in the order of its statements.
PipelineSteps ==
    <<"load_session", "login", NavActions[1], "extract", "for_rows",
      "save_to_json", "save_session">>

IsPipelineStep(e) == \E i \in 1..Len(PipelineSteps) : PipelineSteps[i] = e

\* The steps the run has started, in the order it started them.
StepsStarted == SelectSeq(log, IsPipelineStep)

\* C15: the steps a run has started are an initial part of load_session,
\* login, navigation, collection, parsing, save_to_json, save_session, each
\* started once; the close of the browser is the last thing a run does;
\* once a step has failed the run starts no further step, and the only
\* thing it still does is close the browser.
C15_PipelineOrder ==
    /\ [](/\ IsPrefix(StepsStarted, PipelineSteps)
          /\ \A i \in 1..Len(log) : log[i] = "close" => i = Len(log)
          /\ (err # "none" => pc \in {"finally", "done"})
          /\ (pc = "done" /\ browser # "unbound" =>
                log # <<>> /\ log[Len(log)] = "close"))
    /\ [][err # "none" =>
            /\ SelectSeq(log', IsPipelineStep) = StepsStarted
            /\ log' \in {log, Append(log, "close")}]_vars

\* C15 witness: a run that started all seven steps and closed the browser.
C15_Witness ==
    /\ StepsStarted = PipelineSteps /\ err = "none" /\ pc = "done"
    /\ log[Len(log)] = "close"

\* The events of the run before the close of the browser.
BeforeClose == SelectSeq(log, LAMBDA e : e # "close")

\* The run failed in the call that logged e.
FailedAt(e) ==
    /\ err # "none"
    /\ BeforeClose # <<>> /\ BeforeClose[Len(BeforeClose)] = e

\* C16 (as claimed): a timeout of the entry page load ends the run with the
\* "page load timeout" error, a failure of the wait for the signed-in marker
\* ends it with another error, never with that of the page load; every
\* failure inside login_if_needed is one of the two login errors.
C16_FailuresByCause ==
    /\ (FailedAt("goto") => err \in {MsgLoginTimeout, MsgLoginError})
    /\ (FailedAt("wait_sign_out") => err # MsgLoginTimeout)

\* C17: a load_session that could not use the file leaves the run going,
\* with no error, at the next statement of main, and the sign-in form is
\* filled when the marker shows; a save_session that failed leaves the run
\* without error and the output file as save_to_json wrote it.
C17_SessionBestEffort ==
    /\ (BeforeClose # <<>> /\ BeforeClose[Len(BeforeClose)] = "load_error" =>
            pc = "new_page" /\ err = "none")
    /\ (InLog("load_error") /\ log[Len(log)] = "sign_in_visible" =>
            pc = "fill_email" /\ err = "none")
    /\ (InLog("save_error") =>
            /\ err = "none" /\ pc \in {"finally", "done"}
            /\ outputFile = [written |-> TRUE, partial |-> FALSE, records |-> all_products])

\* C17 witness: the session file could not be used, the run signed in,
\* wrote the output, failed to save the session and ended without error.
C17_Witness ==
    /\ InLog("load_error") /\ InLog("click_submit") /\ InLog("save_error")
    /\ outputFile.written /\ err = "none" /\ pc = "done" /\ exit = "0"

\* session.json is absent, cannot be parsed, or lacks the cookies of
\* "storage_state" or the "session_storage" part.
NoUsableSnapshot ==
    \/ sessionFile.kind # "json"
    \/ ~sessionFile.hasState \/ ~sessionFile.hasCookies
    \/ ~sessionFile.hasStorage

\* C18 (as claimed): when load_session has returned on a session file that
\* is absent, unparsable or lacks one of its two parts, the context has the
\* cookies and the init script it had before: none.
C18_RestoreIsNoOp ==
    pc = "new_page" /\ run = 1 /\ NoUsableSnapshot =>
        ctxCookies = <<>> /\ initScript = NoScript

\* The card has its title, and one of its fragments lacks its label or
\* delimiter.
Malformed(card) ==
    /\ card.hasTitle
    /\ \E j \in 1..Len(card.frags) : Find(card.frags[j], Labels[j]) = 0

\* C19: a card with a fragment that lacks its label or delimiter is the last
\* card the for loop reads: extract_products ends in "Error extracting
\* products", no record is appended for the card, the list is not returned,
\* the records of the cards before it included, and nothing is written.
C19_MalformedFragmentIsFatal ==
    \A i \in 1..Len(visited) :
        Malformed(visited[i]) =>
            /\ i = Len(visited)
            /\ err = MsgExtractError /\ pc \in {"finally", "done"}
            /\ Len(all_products) = i - 1
            /\ ~InLog("extracted") /\ ~InLog("save_to_json")
            /\ outputFile = OldOutput

\* C19 witness: the first card was parsed, the second has a shade fragment
\* without "Shade", and the pass has failed.
C19_Witness ==
    /\ Len(visited) = 2 /\ WellFormed(visited[1]) /\ Len(all_products) = 1
    /\ Len(visited[2].frags) >= 2 /\ visited[2].frags[1] = FragIdPlain
    /\ visited[2].frags[2] = FragShadeBad
    /\ err = MsgExtractError

\* C20: while the number of cards on the page has never decreased, every
\* read after the first returns more cards than the read before it, the
\* loop has issued at most total_count growth triggers and made at most
\* total_count + 1 reads, and it is left; more growth triggers than cards
\* fit on the page are issued only when the number of cards has decreased.
C20_ImplicitLoopBound ==
    /\ [](~shrunk =>
            /\ (nreads >= 2 => lastRead > prevRead)
            /\ triggers <= total_count
            /\ nreads <= total_count + 1
            /\ ~(pc = "hover" /\ triggers = MaxTriggers))
    /\ [](triggers > MaxItems => shrunk)
    /\ ((InLoop /\ ~shrunk) ~> (~InLoop \/ shrunk))

\* C20 witness: the number of cards went down between a growth wait and the
\* next read, and the loop, after more growth triggers than cards fit on the
\* page, is about to issue the next one.
C20_Witness ==
    /\ shrunk /\ pc = "hover" /\ err = "none"
    /\ triggers = MaxTriggers /\ triggers > MaxItems /\ lastRead < total_count
====
